---- MODULE Spec2Model ----
(***************************************************************************)
(* pass2keepass2: conversion of a pass password-store into a keepass2      *)
(* database.  The library (PassReader, PassKey, P2KP2) is the file         *)
(* src/pass2keepass2.py, the command line script is the file               *)
(* src/p2kp2/pass2keepass2.py.                                             *)
(*                                                                         *)
(* Python strings are modelled as sequences of one-character strings, so   *)
(* that split, strip, find and slicing are computed character by           *)
(* character.                                                              *)
(***************************************************************************)
EXTENDS Integers, Sequences, FiniteSets, TLC

VARIABLES
    pc,              \* position of the script
    quick,           \* args.quick
    force_overwrite, \* args.force_overwrite
    store,           \* the files under the password-store, in os.walk order
    key_list,        \* the list get_keys() returned to parse_db
    key_string,      \* the text the last decrypt_key returned
    data,            \* parse_key_string's list of (name, value) pairs
    keys,            \* reader.keys: the parsed PassKey objects
    failed_at,       \* index of the key whose decryption failed, 0 if none
    password,        \* the passphrase typed by the user
    dest_existed,    \* whether the destination file was there at the start
    dest,            \* the destination file on disk
    db,              \* p2kp2.db: the PyKeePass object in memory
    reported,        \* the entry count printed at the end, -1 before
    error,           \* the error that ended the run, "" if none
    exit_code        \* the exit status, -1 while running

vars == <<pc, quick, force_overwrite, store, key_list, key_string,
          data, keys, failed_at, password, dest_existed, dest, db, reported,
          error, exit_code>>

-----------------------------------------------------------------------------
(* Bounds of the model *)

\* longest decrypted text enumerated character by character
MaxLen == 6
\* most field lines of a decrypted text built from whole lines
MaxFields == 3
\* most files in the password-store
MaxKeys == 3

-----------------------------------------------------------------------------
(* Python's str operations *)

NL == "\n"
Colon == ":"
Slash == "/"

\* the characters str.strip() removes
Whitespace == {" ", "\t", "\n", "\r"}

\* str.find(c): 0-based index of the first occurrence, -1 when there is none
find(s, c) ==
    IF \E i \in 1..Len(s) : s[i] = c
    THEN (CHOOSE i \in 1..Len(s) : s[i] = c /\ \A j \in 1..(i - 1) : s[j] # c) - 1
    ELSE -1

\* str.split(sep, maxsplit) for a one-character sep; maxsplit -1 is no limit
RECURSIVE split_max(_, _, _)
split_max(s, sep, maxsplit) ==
    LET i == find(s, sep)
    IN  IF i < 0 \/ maxsplit = 0
        THEN <<s>>
        ELSE <<SubSeq(s, 1, i)>>
             \o split_max(SubSeq(s, i + 2, Len(s)), sep,
                          IF maxsplit < 0 THEN maxsplit ELSE maxsplit - 1)

split(s, sep) == split_max(s, sep, -1)

RECURSIVE lstrip(_)
lstrip(s) ==
    IF s # <<>> /\ Head(s) \in Whitespace THEN lstrip(Tail(s)) ELSE s

RECURSIVE rstrip(_)
rstrip(s) ==
    IF s # <<>> /\ s[Len(s)] \in Whitespace
    THEN rstrip(SubSeq(s, 1, Len(s) - 1))
    ELSE s

\* str.strip()
strip(s) == rstrip(lstrip(s))

\* str.endswith(suffix)
endswith(s, suffix) ==
    /\ Len(s) >= Len(suffix)
    /\ SubSeq(s, Len(s) - Len(suffix) + 1, Len(s)) = suffix

\* sep.join(parts)
RECURSIVE join(_, _)
join(parts, sep) ==
    IF parts = <<>> THEN <<>>
    ELSE IF Len(parts) = 1 THEN parts[1]
    ELSE parts[1] \o sep \o join(Tail(parts), sep)

-----------------------------------------------------------------------------
(* PassKey *)

\* PassKey.to_skip
to_skip == {<<"-", "-", "-">>, <<>>}

\* PassKey.get_title
get_title(key) ==
    LET parts == split(key, Slash) IN parts[Len(parts)]

\* get_groups without its pop(0): the empty segment before the first "/" stays
get_groups_NoPopFirst(key) ==
    LET parts == split(key, Slash) IN SubSeq(parts, 1, Len(parts) - 1)

\* PassKey.get_groups: the segments without the last (pop()) and the first
\* (pop(0)); every key of get_keys starts with "/", so there are at least two
get_groups(key) ==
    LET parts == split(key, Slash) IN SubSeq(parts, 2, Len(parts) - 1)

\* is_valid_line with >= 0 for > 0: a colon at the first position passes
is_valid_line_FirstPos(key_line) == find(key_line, Colon) >= 0

\* PassKey.is_valid_line
is_valid_line(key_line) == find(key_line, Colon) > 0

\* parse_key_line without the two strip() calls
parse_key_line_NoStrip(key_line) ==
    LET d == split_max(key_line, Colon, 1) IN <<d[1], d[2]>>

\* PassKey.parse_key_line
parse_key_line(key_line) ==
    LET d == split_max(key_line, Colon, 1) IN <<strip(d[1]), strip(d[2])>>

\* the list `data` of parse_key_string: the pairs of the lines after the first
\* that pass the filter
parse_data(ks) ==
    LET lines == Tail(split(ks, NL))
        kept  == SelectSeq(lines, LAMBDA x : x \notin to_skip /\ is_valid_line(x))
    IN  [i \in 1..Len(kept) |-> parse_key_line(kept[i])]

S_url == <<"u", "r", "l">>
S_user == <<"u", "s", "e", "r">>
S_notes == <<"n", "o", "t", "e", "s">>

\* dict.update({key: value})
update(d, key, value) ==
    [k \in (DOMAIN d) \cup {key} |-> IF k = key THEN value ELSE d[k]]

\* the loop body without its notes branch: notes falls to the custom properties
store_pair_NotesCustom(self, key, value) ==
    IF key = S_url THEN [self EXCEPT !.url = value]
    ELSE IF key = S_user THEN [self EXCEPT !.user = value]
    ELSE [self EXCEPT !.custom_properties = update(@, key, value)]

\* the body of parse_key_string's loop over data
store_pair(self, key, value) ==
    IF key = S_url THEN [self EXCEPT !.url = value]
    ELSE IF key = S_user THEN [self EXCEPT !.user = value]
    ELSE IF key = S_notes THEN [self EXCEPT !.notes = value]
    ELSE [self EXCEPT !.custom_properties = update(@, key, value)]

RECURSIVE store_data(_, _)
store_data(self, d) ==
    IF d = <<>> THEN self
    ELSE store_data(store_pair(self, d[1][1], d[1][2]), Tail(d))

\* PassKey.parse_key_string
parse_key_string(self, ks) ==
    store_data([self EXCEPT !.password = Head(split(ks, NL))], parse_data(ks))

\* PassKey.__init__, given the text decrypt_key returned
PassKey(key, ks) ==
    parse_key_string([url |-> <<>>, user |-> <<>>, notes |-> <<>>,
                      custom_properties |-> <<>>,
                      groups |-> get_groups(key), title |-> get_title(key),
                      password |-> <<>>], ks)

-----------------------------------------------------------------------------
(* PassReader *)

\* reader.path: the absolute path of the password-store, without a trailing "/"
StorePath == <<"/", "s">>

S_gpg == <<".", "g", "p", "g">>

\* os.walk's dirpath of a file: the store path and the file's directories
dirpath_of(path, f) ==
    IF f.dirs = <<>> THEN path ELSE path \o <<Slash>> \o join(f.dirs, <<Slash>>)

\* os.path.join(dirpath, fn), fn being a plain file name
path_join(dirpath, fn) == dirpath \o <<Slash>> \o fn

\* Python's s[start:-4]
slice_to_minus4(s, start) == SubSeq(s, start + 1, Len(s) - 4)

\* PassReader.get_keys
get_keys(path, walk) ==
    LET gpg == SelectSeq(walk, LAMBDA f : endswith(f.fn, S_gpg))
        key_of(f) ==
            slice_to_minus4(path_join(dirpath_of(path, f), f.fn), Len(path))
    IN  [i \in 1..Len(gpg) |-> key_of(gpg[i])]

-----------------------------------------------------------------------------
(* The keepass database: the groups are numbered from 1 in creation order,  *)
(* the root group is 0; a group is its name and its parent's number.        *)

RootGroup == 0
None == -1

\* the content of empty.kdbx: no group but the root, no entry
EmptyKdbx == [password |-> <<"e">>, groups |-> <<>>, entries |-> <<>>]
\* the content of a destination file that was there before the run
OldKdbx == [password |-> <<"o">>, groups |-> <<>>, entries |-> <<>>]
NoContent == [password |-> <<>>, groups |-> <<>>, entries |-> <<>>]
NoFile == [exists |-> FALSE, content |-> NoContent]
NoDb == [open |-> FALSE, password |-> <<>>, groups |-> <<>>, entries |-> <<>>]

\* PyKeePass(filename)
Load(file) ==
    [open |-> TRUE, password |-> file.content.password,
     groups |-> file.content.groups, entries |-> file.content.entries]

\* PyKeePass.save()
Saved(d) ==
    [exists |-> TRUE,
     content |-> [password |-> d.password, groups |-> d.groups,
                  entries |-> d.entries]]

\* a lookup that never finds the group
find_groups_NotFound(d, name, group) == None

\* db.find_groups(name=name, recursive=False, group=group, first=True)
find_groups(d, name, group) ==
    LET hits == {i \in 1..Len(d.groups) : d.groups[i].name = name
                                           /\ d.groups[i].parent = group}
    IN  IF hits = {} THEN None ELSE CHOOSE i \in hits : \A j \in hits : i <= j

\* db.add_group(destination_group, group_name)
add_group(d, destination_group, group_name) ==
    [d EXCEPT !.groups = Append(@, [name |-> group_name,
                                    parent |-> destination_group])]

\* add_key's loop over key.groups: the database and the key's group
RECURSIVE resolve_groups(_, _, _)
resolve_groups(d, key_group, groups) ==
    IF groups = <<>> THEN [db |-> d, key_group |-> key_group]
    ELSE LET group == find_groups(d, groups[1], key_group)
         IN  IF group = None
             THEN LET d2 == add_group(d, key_group, groups[1])
                  IN  resolve_groups(d2, Len(d2.groups), Tail(groups))
             ELSE resolve_groups(d, group, Tail(groups))

\* add_key without its entry.url assignment
add_key_NoUrl(d, key) ==
    LET r == resolve_groups(d, RootGroup, key.groups)
        entry == [group |-> r.key_group, title |-> key.title,
                  username |-> key.user, password |-> key.password,
                  url |-> <<>>, notes |-> key.notes,
                  custom_properties |-> key.custom_properties]
    IN  [r.db EXCEPT !.entries = Append(@, entry)]

\* P2KP2.add_key
add_key(d, key) ==
    LET r == resolve_groups(d, RootGroup, key.groups)
        entry == [group |-> r.key_group, title |-> key.title,
                  username |-> key.user, password |-> key.password,
                  url |-> key.url, notes |-> key.notes,
                  custom_properties |-> key.custom_properties]
    IN  [r.db EXCEPT !.entries = Append(@, entry)]

\* the constructor with copyfile before the existence test
P2KP2_CopyFirst(pw, file) ==
    LET copied == [exists |-> TRUE, content |-> EmptyKdbx]
    IN  IF ~file.exists
        THEN LET d == [Load(copied) EXCEPT !.password = pw]
             IN  [raised |-> FALSE, db |-> d, dest |-> Saved(d)]
        ELSE [raised |-> TRUE, db |-> NoDb, dest |-> copied]

\* P2KP2.__init__(password, destination): raises DbAlreadyExistsException
\* when the destination exists, whatever was asked on the command line
P2KP2(pw, file) ==
    IF ~file.exists
    THEN LET copied == [exists |-> TRUE, content |-> EmptyKdbx]
             d == [Load(copied) EXCEPT !.password = pw]
         IN  [raised |-> FALSE, db |-> d, dest |-> Saved(d)]
    ELSE [raised |-> TRUE, db |-> NoDb, dest |-> file]

RECURSIVE add_keys(_, _)
add_keys(d, ks) ==
    IF ks = <<>> THEN d ELSE add_keys(add_key(d, ks[1]), Tail(ks))

\* populate_db without the save at its end
populate_db_NoSave(d, file, ks) ==
    [db |-> add_keys(d, ks), dest |-> file]

\* P2KP2.populate_db(reader): add every key of the reader, then save
populate_db(d, file, ks) ==
    LET d2 == add_keys(d, ks) IN [db |-> d2, dest |-> Saved(d2)]

-----------------------------------------------------------------------------
(* The inputs *)

Passwords == {<<"s">>, <<"t">>}

\* a file of the password-store: its directories under the store, its name
File(dirs, fn) == [dirs |-> dirs, fn |-> fn]

StoreFiles ==
    { File(<<>>, <<"x">> \o S_gpg),
      File(<<<<"a">>>>, <<"x">> \o S_gpg),
      File(<<<<"a">>>>, <<"y">> \o S_gpg),
      File(<<<<"a">>, <<"a">>>>, <<"x">> \o S_gpg),
      File(<<<<"b">>, <<"a">>>>, <<"x">> \o S_gpg),
      File(<<<<"a">>>>, <<"n", ".", "t", "x", "t">>) }

\* the stores of at most MaxKeys files, in any walk order
Stores ==
    UNION { { w \in [1..n -> StoreFiles] :
                \A i, j \in 1..n : i # j => w[i] # w[j] } : n \in 0..MaxKeys }

\* the decrypted texts of a run: a bare secret, and a secret with fields
KeyTexts ==
    { <<"p">>,
      join(<< <<"q">>,
              S_url \o <<Colon, " ", "w">>,
              S_user \o <<Colon, "m">>,
              S_notes \o <<Colon, " ", "n">>,
              <<"k", Colon, " ", "v">>,
              <<>> >>, <<NL>>) }

\* the characters of the texts enumerated character by character
Chars == {NL, Colon, " ", "a"}

CharStrings == UNION { [1..n -> Chars] : n \in 0..MaxLen }

FieldNames == {S_url, S_user, S_notes, <<"k">>, <<"U", "R", "L">>}
FieldValues == {<<"v">>, <<"w">>}

FieldLines ==
    { n \o <<Colon, " ">> \o v : n \in FieldNames, v \in FieldValues }
    \cup { <<"-", "-", "-">>, <<>>, <<"k">>, <<Colon, "v">> }

\* a secret line followed by at most MaxFields lines
FieldTexts ==
    { join(<< <<"p">> >> \o ls, <<NL>>) :
        ls \in UNION { [1..n -> FieldLines] : n \in 0..MaxFields } }

-----------------------------------------------------------------------------
(* The run of the script *)

Init ==
    /\ pc = "start"
    /\ quick \in BOOLEAN
    /\ force_overwrite \in BOOLEAN
    /\ store \in Stores
    /\ dest_existed \in BOOLEAN
    /\ dest = IF dest_existed THEN [exists |-> TRUE, content |-> OldKdbx]
              ELSE NoFile
    /\ key_list = <<>>
    /\ key_string = <<>>
    /\ data = <<>>
    /\ keys = <<>>
    /\ failed_at = 0
    /\ password = <<>>
    /\ db = NoDb
    /\ reported = -1
    /\ error = ""
    /\ exit_code = -1

\* str.lower() on the answers the model types
lower(a) == IF a = "Y" THEN "y" ELSE a

\* exec_normal_mode: "Are you ready to proceed? [Y/n]"
Confirm ==
    /\ pc = "start"
    /\ ~quick
    /\ \E answer \in {"y", "Y", "", "n"} :
         IF lower(answer) = "y" \/ lower(answer) = ""
         THEN /\ pc' = "read"
              /\ UNCHANGED <<error, exit_code>>
         ELSE /\ pc' = "exit"
              /\ error' = "bye"
              /\ exit_code' = 1
    /\ UNCHANGED <<quick, force_overwrite, store, key_list, key_string, data,
                   keys, failed_at, password, dest_existed, dest, db, reported>>

\* exec_quick_mode: the one password prompt
QuickPassword ==
    /\ pc = "start"
    /\ quick
    /\ \E p \in Passwords : password' = p
    /\ pc' = "read"
    /\ UNCHANGED <<quick, force_overwrite, store, key_list, key_string, data,
                   keys, failed_at, dest_existed, dest, db, reported, error,
                   exit_code>>

\* PassReader(path) and the get_keys() call that opens parse_db's loop
ReadStore ==
    /\ pc = "read"
    /\ keys' = <<>>
    /\ key_list' = get_keys(StorePath, store)
    /\ pc' = "parse"
    /\ UNCHANGED <<quick, force_overwrite, store, key_string, data, failed_at,
                   password, dest_existed, dest, db, reported, error, exit_code>>

\* a loop turn that swallows the exception and goes on with the next key
ParseKey_SkipFailed ==
    /\ pc = "parse"
    /\ Len(keys) < Len(key_list)
    /\ \E ok \in BOOLEAN, text \in KeyTexts :
         IF ok
         THEN /\ key_string' = text
              /\ data' = parse_data(text)
              /\ keys' = Append(keys, PassKey(key_list[Len(keys) + 1], text))
              /\ UNCHANGED <<failed_at, pc, error, exit_code, key_list>>
         ELSE /\ failed_at' = Len(keys) + 1
              /\ key_list' = SubSeq(key_list, 1, Len(keys))
                               \o SubSeq(key_list, Len(keys) + 2, Len(key_list))
              /\ UNCHANGED <<key_string, data, keys, pc, error, exit_code>>
    /\ UNCHANGED <<quick, force_overwrite, store, password, dest_existed, dest,
                   db, reported>>

\* one turn of parse_db's loop: parse_key(key), that is PassKey(reader, key).
\* decrypt_key either returns the text of the entry or raises (pass exits
\* non-zero, or its output is not UTF-8); the script catches the exception,
\* prints an error and exits with status 1
ParseKey ==
    /\ pc = "parse"
    /\ Len(keys) < Len(key_list)
    /\ \E ok \in BOOLEAN, text \in KeyTexts :
         IF ok
         THEN /\ key_string' = text
              /\ data' = parse_data(text)
              /\ keys' = Append(keys, PassKey(key_list[Len(keys) + 1], text))
              /\ UNCHANGED <<failed_at, pc, error, exit_code>>
         ELSE /\ failed_at' = Len(keys) + 1
              /\ pc' = "exit"
              /\ error' = "error while parsing the password-store entries"
              /\ exit_code' = 1
              /\ UNCHANGED <<key_string, data, keys>>
    /\ UNCHANGED <<quick, force_overwrite, store, key_list, password,
                   dest_existed, dest, db, reported>>

\* parse_db returns: every key is parsed
ParseDone ==
    /\ pc = "parse"
    /\ Len(keys) = Len(key_list)
    /\ pc' = IF quick THEN "create" ELSE "password"
    /\ UNCHANGED <<quick, force_overwrite, store, key_list, key_string, data,
                   keys, failed_at, password, dest_existed, dest, db, reported,
                   error, exit_code>>

\* exec_normal_mode: the password is asked twice, until both agree
ChoosePassword ==
    /\ pc = "password"
    /\ \E p1, p2 \in Passwords :
         IF p1 = p2
         THEN password' = p1 /\ pc' = "create"
         ELSE UNCHANGED <<password, pc>>
    /\ UNCHANGED <<quick, force_overwrite, store, key_list, key_string, data,
                   keys, failed_at, dest_existed, dest, db, reported, error,
                   exit_code>>

\* P2KP2(password=..., destination=..., overwrite=args.force_overwrite) and
\* the except clauses around it.  The constructor of the library has no
\* overwrite parameter and its body never reads the flag: what it does is
\* decided by the destination alone.
CreateTarget ==
    /\ pc = "create"
    /\ LET r == P2KP2(password, dest)
       IN  /\ db' = r.db
           /\ dest' = r.dest
           /\ IF r.raised
              THEN /\ pc' = "exit"
                   /\ error' = "DbAlreadyExistsException"
                   /\ exit_code' = 1
              ELSE /\ pc' = "populate"
                   /\ UNCHANGED <<error, exit_code>>
    /\ UNCHANGED <<quick, force_overwrite, store, key_list, key_string, data,
                   keys, failed_at, password, dest_existed, reported>>

\* p2kp2.populate_db(reader) and the report of len(p2kp2.db.entries)
PopulateDb ==
    /\ pc = "populate"
    /\ LET r == populate_db(db, dest, keys)
       IN  /\ db' = r.db
           /\ dest' = r.dest
           /\ reported' = Len(r.db.entries)
    /\ pc' = "done"
    /\ exit_code' = 0
    /\ UNCHANGED <<quick, force_overwrite, store, key_list, key_string, data,
                   keys, failed_at, password, dest_existed, error>>

Next ==
    \/ Confirm
    \/ QuickPassword
    \/ ReadStore
    \/ ParseKey
    \/ ParseDone
    \/ ChoosePassword
    \/ CreateTarget
    \/ PopulateDb

Spec == Init /\ [][Next]_vars

-----------------------------------------------------------------------------
(* The parsing of one decrypted text, for every text of the bounded sets *)

\* the key of the entry whose text is parsed
ParsedKey == <<Slash, "a", Slash, "x">>

InitParse ==
    /\ pc = "decrypted"
    /\ key_string \in CharStrings \cup FieldTexts
    /\ quick = FALSE
    /\ force_overwrite = FALSE
    /\ store = <<>>
    /\ dest_existed = FALSE
    /\ dest = NoFile
    /\ key_list = <<ParsedKey>>
    /\ data = <<>>
    /\ keys = <<>>
    /\ failed_at = 0
    /\ password = <<>>
    /\ db = NoDb
    /\ reported = -1
    /\ error = ""
    /\ exit_code = -1

\* PassKey.__init__ from the decrypted text on
ParseKeyString ==
    /\ pc = "decrypted"
    /\ data' = parse_data(key_string)
    /\ keys' = <<PassKey(key_list[1], key_string)>>
    /\ pc' = "parsed"
    /\ UNCHANGED <<quick, force_overwrite, store, key_list, key_string,
                   failed_at, password, dest_existed, dest, db, reported,
                   error, exit_code>>

NextParse == ParseKeyString

SpecParse == InitParse /\ [][NextParse]_vars

-----------------------------------------------------------------------------
(* Target creation *)

\* the constructor P2KP2(...) has been called
Constructed ==
    \/ pc \in {"populate", "done"}
    \/ pc = "exit" /\ failed_at = 0 /\ error # "bye"

OldFile == [exists |-> TRUE, content |-> OldKdbx]

\* C1: when the destination file exists and overwrite was not requested, the
\* constructor fails with DbAlreadyExistsException and the existing file is
\* left as it was: nothing is copied over it, no database is opened, no
\* passphrase is set and nothing is saved.
C1_ExistingDestinationRefused ==
    (Constructed /\ dest_existed /\ ~force_overwrite)
        => /\ error = "DbAlreadyExistsException"
           /\ pc = "exit"
           /\ exit_code = 1
           /\ dest = OldFile
           /\ db = NoDb

C1_Witness ==
    /\ dest_existed
    /\ ~force_overwrite
    /\ error = "DbAlreadyExistsException"
    /\ Len(keys) > 0

\* C2: in every case other than "destination present and overwrite not
\* requested", that is when the destination is absent and also when it is
\* present and overwrite was requested, the constructor creates a fresh empty
\* container at the destination, secured with the passphrase and saved, and
\* there is no 'already exists' failure.
C2_CreatedUnlessRefused ==
    (Constructed /\ ~(dest_existed /\ ~force_overwrite))
        => /\ error = ""
           /\ db.open
           /\ db.password = password
           /\ dest.exists
           /\ dest.content.password = password
           /\ pc = "populate" => dest.content = [EmptyKdbx EXCEPT !.password = password]

-----------------------------------------------------------------------------
(* Decryption failures *)

\* C3: if the decryption of an entry fails, the run ends with the generic
\* error and exit status 1, no later entry is processed, and the destination
\* is never created or written: the database is only created once every
\* entry has been decrypted and parsed.
C3_DecryptFailureAborts ==
    /\ failed_at # 0
         => /\ pc = "exit"
            /\ exit_code = 1
            /\ error = "error while parsing the password-store entries"
            /\ Len(keys) = failed_at - 1
            /\ db = NoDb
            /\ dest = (IF dest_existed THEN OldFile ELSE NoFile)
    /\ (db.open \/ dest # (IF dest_existed THEN OldFile ELSE NoFile))
         => failed_at = 0 /\ Len(keys) = Len(key_list)

C3_Witness ==
    /\ failed_at = 1
    /\ Len(key_list) = 2
    /\ pc = "exit"

-----------------------------------------------------------------------------
(* The lines of a text, by the positions of its line breaks *)

NLCount(s, i) == Cardinality({j \in 1..i : s[j] = NL})

LineCount(s) == NLCount(s, Len(s)) + 1

\* the position of the k-th line break; 0 for k = 0, Len(s) + 1 past the last
Break(s, k) ==
    IF k = 0 THEN 0
    ELSE IF k = LineCount(s) THEN Len(s) + 1
    ELSE CHOOSE i \in 1..Len(s) : s[i] = NL /\ NLCount(s, i) = k

LineAt(s, k) == SubSeq(s, Break(s, k - 1) + 1, Break(s, k) - 1)

\* the lines after the first, in order
LaterLines(s) == [k \in 1..(LineCount(s) - 1) |-> LineAt(s, k + 1)]

HasColon(l) == \E i \in 1..Len(l) : l[i] = Colon

\* the text without the whitespace at both ends
Trim(s) ==
    LET inked == {i \in 1..Len(s) : s[i] \notin Whitespace}
    IN  IF inked = {} THEN <<>>
        ELSE SubSeq(s, CHOOSE i \in inked : \A j \in inked : i <= j,
                       CHOOSE i \in inked : \A j \in inked : j <= i)

\* a line with a colon that is not its first character
Accepted(l) == HasColon(l) /\ l[1] # Colon

\* a line that, once trimmed, is not blank and has a colon anywhere
AcceptedTrimmed(l) == Trim(l) # <<>> /\ HasColon(Trim(l))

-----------------------------------------------------------------------------
(* Entry parsing *)

\* C4 as stated: the first line is the secret and is never parsed as a field;
\* every later line is trimmed and skipped exactly when it is blank or has no
\* colon, and every other later line, a colon at its first position
\* included, yields one pair.
C4_ColonAnywhere ==
    pc = "parsed"
        => /\ keys[1].password = LineAt(key_string, 1)
           /\ Len(data) = Len(SelectSeq(LaterLines(key_string), AcceptedTrimmed))

\* C4, amended: the first line is the secret and is never parsed as a field;
\* every later line is skipped exactly when it has no colon or its first
\* character is the colon (blank lines and "---" have none), and every other
\* later line yields one pair.
C4_FirstLineSecretLaterLinesFiltered ==
    pc = "parsed"
        => /\ keys[1].password = LineAt(key_string, 1)
           /\ Len(data) = Len(SelectSeq(LaterLines(key_string), Accepted))

C4_Witness ==
    /\ pc = "parsed"
    /\ HasColon(LineAt(key_string, 1))
    /\ LineCount(key_string) = 3
    /\ Len(data) = 1
    /\ \E k \in 2..3 : LineAt(key_string, k) # <<>>
                       /\ LineAt(key_string, k)[1] = Colon

FirstColon(l) == CHOOSE i \in 1..Len(l) : l[i] = Colon /\ \A j \in 1..(i - 1) : l[j] # Colon

\* C5: every accepted line is split once, at its first colon, into the text
\* before it and all the text after it (further colons included), both
\* trimmed of surrounding whitespace.
C5_SplitAtFirstColon ==
    pc = "parsed"
        => LET acc == SelectSeq(LaterLines(key_string), Accepted)
           IN  /\ Len(data) = Len(acc)
               /\ \A i \in 1..Len(acc) :
                    LET l == acc[i]
                        c == FirstColon(l)
                    IN  data[i] = << Trim(SubSeq(l, 1, c - 1)),
                                     Trim(SubSeq(l, c + 1, Len(l))) >>

C5_Witness ==
    /\ pc = "parsed"
    /\ Len(data) = 1
    /\ HasColon(data[1][2])
    /\ data[1][1] # <<>>
    /\ \E k \in 2..LineCount(key_string) :
         LET l == LineAt(key_string, k)
         IN  Accepted(l) /\ Len(l) > Len(data[1][1]) + Len(data[1][2]) + 1

Dedicated == {S_url, S_user, S_notes}

HasName(n) == \E i \in 1..Len(data) : data[i][1] = n

\* the value of the last pair named n
LastValue(n) ==
    LET at == {i \in 1..Len(data) : data[i][1] = n}
    IN  data[CHOOSE i \in at : \A j \in at : j <= i][2]

FieldOr(n) == IF HasName(n) THEN LastValue(n) ELSE <<>>

\* C6: a pair named url, user or notes goes to its dedicated field only and
\* never into the custom properties; every other pair goes into the custom
\* properties; of several lines with one name the last one's value is kept;
\* a dedicated field with no line is the empty string.
C6_DedicatedAndCustomFields ==
    pc = "parsed"
        => LET k == keys[1]
           IN  /\ k.url = FieldOr(S_url)
               /\ k.user = FieldOr(S_user)
               /\ k.notes = FieldOr(S_notes)
               /\ DOMAIN k.custom_properties
                    = {data[i][1] : i \in 1..Len(data)} \ Dedicated
               /\ \A n \in DOMAIN k.custom_properties :
                    k.custom_properties[n] = LastValue(n)

C6_Witness ==
    /\ pc = "parsed"
    /\ Len(data) = 3
    /\ data[1][1] = data[3][1]
    /\ data[1][2] # data[3][2]
    /\ data[1][1] \notin Dedicated
    /\ data[2][1] = S_notes
    /\ keys[1].notes # <<>>

-----------------------------------------------------------------------------
(* Group derivation *)

\* the .gpg files of the store, in walk order
GpgFiles == SelectSeq(store, LAMBDA f : endswith(f.fn, S_gpg))

\* the file name without its four-character extension
BaseName(f) == SubSeq(f.fn, 1, Len(f.fn) - 4)

GroupsAndTitleOfKey(i) ==
    /\ keys[i].groups = GpgFiles[i].dirs
    /\ keys[i].title = BaseName(GpgFiles[i])
    /\ GpgFiles[i].dirs = <<>> => keys[i].groups = <<>>

\* C7 as stated: for every key path of entry discovery, get_groups gives the
\* directory segments between the store root and the file name, outermost
\* first, get_title gives the file name segment, an entry directly under the
\* root has no group, and the groups and the title joined with "/" give back
\* the key path.
C7_JoinGivesKeyPath ==
    \A i \in 1..Len(keys) :
        /\ GroupsAndTitleOfKey(i)
        /\ join(Append(keys[i].groups, keys[i].title), <<Slash>>) = key_list[i]

\* C7, amended: the same, except that the key path of entry discovery starts
\* with "/", so that the groups and the title joined with "/" give back the
\* key path without its leading "/".
C7_JoinGivesKeyPathAfterSlash ==
    /\ pc \notin {"start", "read", "exit"} => Len(key_list) = Len(GpgFiles)
    /\ \A i \in 1..Len(keys) :
        /\ GroupsAndTitleOfKey(i)
        /\ <<Slash>> \o join(Append(keys[i].groups, keys[i].title), <<Slash>>)
             = key_list[i]

C7_Witness ==
    /\ Len(store) = 3
    /\ Len(keys) = 2
    /\ keys[1].groups = <<>>
    /\ Len(keys[2].groups) = 2

-----------------------------------------------------------------------------
(* Entry population *)

\* the names of the groups from the root down to group g
RECURSIVE GroupPath(_, _)
GroupPath(d, g) ==
    IF g = RootGroup THEN <<>>
    ELSE Append(GroupPath(d, d.groups[g].parent), d.groups[g].name)

\* the directory prefixes of the keys: the groups the entries need
NeededGroups(ks) ==
    UNION { { SubSeq(ks[i].groups, 1, n) : n \in 1..Len(ks[i].groups) } :
              i \in 1..Len(ks) }

\* C8: from a freshly created container on, no group has two child groups of
\* one name: add_key reuses the child of the current parent that has the
\* name and creates one only when there is none, so that the groups are
\* exactly the directory prefixes of the entries, shared prefixes sharing
\* their groups and equal names under different parents being different
\* groups.
C8_SiblingGroupNamesUnique ==
    /\ \A i, j \in 1..Len(db.groups) :
         (db.groups[i].name = db.groups[j].name
            /\ db.groups[i].parent = db.groups[j].parent) => i = j
    /\ \A i \in 1..Len(db.groups) : db.groups[i].parent < i
    /\ pc = "done"
         => {GroupPath(db, g) : g \in 1..Len(db.groups)} = NeededGroups(keys)

C8_Witness ==
    /\ pc = "done"
    /\ Len(db.entries) = 3
    /\ Len(db.groups) = 4
    /\ db.entries[1].group = 1
    /\ db.entries[2].group = 2
    /\ db.groups[1].name = db.groups[2].name
    /\ db.groups[4].name = db.groups[1].name

\* C9: populating from n parsed entries creates n destination entries, one
\* per source entry, each in the innermost group of its group chain (the root
\* group for an empty chain), with the title, user, secret, url, notes and
\* custom properties of the source entry; the count reported is n.
C9_OneEntryPerKey ==
    pc = "done"
        => /\ Len(db.entries) = Len(keys)
           /\ reported = Len(keys)
           /\ \A i \in 1..Len(keys) :
                LET e == db.entries[i]
                    k == keys[i]
                IN  /\ GroupPath(db, e.group) = k.groups
                    /\ k.groups = <<>> => e.group = RootGroup
                    /\ e.title = k.title
                    /\ e.username = k.user
                    /\ e.password = k.password
                    /\ e.url = k.url
                    /\ e.notes = k.notes
                    /\ e.custom_properties = k.custom_properties

C9_Witness ==
    /\ pc = "done"
    /\ reported = 3
    /\ db.entries[1].group = RootGroup
    /\ db.entries[2].group # RootGroup
    /\ db.entries[2].url # <<>>
    /\ db.entries[2].username # <<>>
    /\ db.entries[2].notes # <<>>
    /\ DOMAIN db.entries[2].custom_properties # {}

\* C10: the container is saved after the entries are added: when a run has
\* completed, the destination file holds every entry and group that was
\* added, not only the empty container saved at creation.
C10_SavedAfterPopulation ==
    pc = "done"
        => /\ dest.exists
           /\ dest.content.password = password
           /\ dest.content.entries = db.entries
           /\ dest.content.groups = db.groups
           /\ Len(dest.content.entries) = Len(keys)

C10_Witness ==
    /\ pc = "done"
    /\ exit_code = 0
    /\ Len(dest.content.entries) = 2
    /\ Len(dest.content.groups) = 2

====
